---------------------------- MODULE Spec2Model ----------------------------
(***************************************************************************)
(* A model of the vector-traits crate: the scalar capability               *)
(* (GenericScalar), the coordinate capabilities (HasXY, HasXYZ), the       *)
(* generic vector capabilities (GenericVector2, GenericVector3) and their  *)
(* implementations for the glam and cgmath vector types.                   *)
(*                                                                         *)
(* Scalars are IEEE-754 binary floating point numbers.  f32 and f64 differ *)
(* only in the width of the exponent and of the significand, so the model  *)
(* uses one binary format with ExpBits exponent bits and MantBits stored   *)
(* significand bits, with signed zeros, subnormals, infinities, NaN and    *)
(* round-to-nearest-even arithmetic.                                       *)
(***************************************************************************)
EXTENDS Integers, Sequences, FiniteSets, TLC

VARIABLES ty, v, alt, last, nw, op, k, zc, r, simd

vars == <<ty, v, alt, last, nw, op, k, zc, r, simd>>

(***************************************************************************)
(* The floating point format                                               *)
(***************************************************************************)

\* width of the exponent field (8 for f32, 11 for f64)
ExpBits == 3

\* stored bits of the significand (23 for f32, 52 for f64)
MantBits == 3

Bias == 2^(ExpBits - 1) - 1

\* A finite magnitude is held as a count m of the smallest subnormal,
\* 2^(1 - Bias - MantBits); 1.0 is 2^Scale of them.
Scale == Bias + MantBits - 1

\* the largest finite magnitude (f32::MAX)
MaxMag == (2^(MantBits + 1) - 1) * 2^(2^ExpBits - 3)

\* the smallest normal magnitude (f32::MIN_POSITIVE)
MinNormal == 2^MantBits

Fin(s, m) == [k |-> "fin", s |-> s, m |-> m]

Inf(s) == [k |-> "inf", s |-> s, m |-> 0]

NaN == [k |-> "nan", s |-> 0, m |-> 0]

\* the representable magnitudes: significand f, shifted by e binades
Mags == {f * 2^e : f \in 0..(2^(MantBits + 1) - 1), e \in 0..(2^ExpBits - 3)}

\* every value of the scalar type, the non-finite ones included
Scalars == {Fin(s, m) : s \in {0, 1}, m \in Mags} \cup {Inf(0), Inf(1), NaN}

IsNaN(a) == a.k = "nan"

IsInf(a) == a.k = "inf"

\* Float::is_finite
is_finite(a) == a.k = "fin"

\* Float::is_normal
is_normal(a) == a.k = "fin" /\ a.m >= MinNormal

\* Zero::is_zero, which is `*self == 0.0`
is_zero(a) == a.k = "fin" /\ a.m = 0

\* the distance between neighbouring representable magnitudes at f
RECURSIVE Spacing(_)
Spacing(f) == IF f < 2^(MantBits + 1) THEN 1 ELSE 2 * Spacing(f \div 2)

\* num/den smallest-subnormals, rounded to nearest, ties to even; a result
\* beyond MaxMag overflows to infinity
RoundQ(s, num, den) ==
    LET f == num \div den
        q == Spacing(f)
        lo == (f \div q) * q
        r2 == 2 * (num - lo * den)
        h == q * den
        up == r2 > h \/ (r2 = h /\ (lo \div q) % 2 = 1)
        m == IF up THEN lo + q ELSE lo
    IN  IF m > MaxMag THEN Inf(s) ELSE Fin(s, m)

\* a and d with their common factors of two removed
RECURSIVE Reduce(_, _)
Reduce(a, d) ==
    IF d > 1 /\ a % 2 = 0 THEN Reduce(a \div 2, d \div 2) ELSE <<a, d>>

Xor(s, t) == (s + t) % 2

\* -a
FNeg(a) == IF IsNaN(a) THEN NaN ELSE [a EXCEPT !.s = 1 - a.s]

\* a.abs()
FAbs(a) == IF IsNaN(a) THEN NaN ELSE [a EXCEPT !.s = 0]

\* a * b
FMul(a, b) ==
    IF IsNaN(a) \/ IsNaN(b) THEN NaN
    ELSE IF (IsInf(a) /\ is_zero(b)) \/ (is_zero(a) /\ IsInf(b)) THEN NaN
    ELSE IF IsInf(a) \/ IsInf(b) THEN Inf(Xor(a.s, b.s))
    ELSE LET ra == Reduce(a.m, 2^Scale)
             rb == Reduce(b.m, ra[2])
         IN  RoundQ(Xor(a.s, b.s), ra[1] * rb[1], rb[2])

\* a / b
FDiv(a, b) ==
    IF IsNaN(a) \/ IsNaN(b) THEN NaN
    ELSE IF (IsInf(a) /\ IsInf(b)) \/ (is_zero(a) /\ is_zero(b)) THEN NaN
    ELSE IF IsInf(a) \/ is_zero(b) THEN Inf(Xor(a.s, b.s))
    ELSE IF IsInf(b) THEN Fin(Xor(a.s, b.s), 0)
    ELSE RoundQ(Xor(a.s, b.s), a.m * 2^Scale, b.m)

\* a + b
FAdd(a, b) ==
    IF IsNaN(a) \/ IsNaN(b) THEN NaN
    ELSE IF IsInf(a) /\ IsInf(b) THEN (IF a.s = b.s THEN a ELSE NaN)
    ELSE IF IsInf(a) THEN a
    ELSE IF IsInf(b) THEN b
    ELSE LET t == (IF a.s = 1 THEN -a.m ELSE a.m) + (IF b.s = 1 THEN -b.m ELSE b.m)
         IN  IF t = 0 THEN Fin(IF a.s = 1 /\ b.s = 1 THEN 1 ELSE 0, 0)
             ELSE IF t < 0 THEN RoundQ(1, -t, 1)
             ELSE RoundQ(0, t, 1)

\* a - b
FSub(a, b) == FAdd(a, FNeg(b))

\* the integer square root
RECURSIVE Isqrt(_)
Isqrt(n) ==
    IF n < 2 THEN n
    ELSE LET s == 2 * Isqrt(n \div 4)
         IN  IF (s + 1) * (s + 1) <= n THEN s + 1 ELSE s

\* a.sqrt(), correctly rounded
FSqrt(a) ==
    IF IsNaN(a) THEN NaN
    ELSE IF is_zero(a) THEN a
    ELSE IF a.s = 1 THEN NaN
    ELSE IF IsInf(a) THEN a
    ELSE LET n == a.m * 2^Scale
             f == Isqrt(n)
             q == Spacing(f)
             lo == (f \div q) * q
             t == (2 * lo + q) * (2 * lo + q)
             up == t < 4 * n \/ (t = 4 * n /\ (lo \div q) % 2 = 1)
         IN  Fin(0, IF up THEN lo + q ELSE lo)

\* a == b of PartialEq: NaN equals nothing, the two zeros are equal
FEq(a, b) ==
    /\ ~IsNaN(a)
    /\ ~IsNaN(b)
    /\ \/ a = b
       \/ is_zero(a) /\ is_zero(b)

\* the order of a finite or infinite value on the number line
Ord(a) == IF IsInf(a) THEN (IF a.s = 1 THEN -(MaxMag + 1) ELSE MaxMag + 1)
          ELSE IF a.s = 1 THEN -a.m ELSE a.m

\* a < b of PartialOrd
FLt(a, b) == ~IsNaN(a) /\ ~IsNaN(b) /\ Ord(a) < Ord(b)

\* GenericScalar::ZERO
ZERO == Fin(0, 0)

\* GenericScalar::ONE
ONE == Fin(0, 2^Scale)

\* GenericScalar::EPSILON, the gap between 1.0 and the next value
EPSILON == Fin(0, 2^(Scale - MantBits))

(***************************************************************************)
(* The vector types.  A tag names one implementation block of the traits:  *)
(*   "Vec2"      impl_vector2!        glam Vec2 (f32) and DVec2 (f64)       *)
(*   "Vec3"      impl_vector3!        glam Vec3 (f32) and DVec3 (f64)       *)
(*   "Vec2A"     the wrapper Vec2A(pub Vec2)                                *)
(*   "Vec3A"     glam Vec3A                                                 *)
(*   "CgVector2" impl_cgmath_vector2! cgmath Vector2<f32>, Vector2<f64>     *)
(*   "CgVector3" impl_cgmath_vector3! cgmath Vector3<f32>, Vector3<f64>     *)
(* A glam or cgmath vector is the record of its fields; a Vec2A is the     *)
(* one-element tuple of the Vec2 it wraps, its field .0 being h[1].        *)
(***************************************************************************)
Types2 == {"Vec2", "Vec2A", "CgVector2"}

Types3 == {"Vec3", "Vec3A", "CgVector3"}

Types == Types2 \cup Types3

\* glam Vec2::new / DVec2::new / vec2, cgmath Vector2::new
Vector2_new(px, py) == [x |-> px, y |-> py]

\* glam Vec3::new / DVec3::new / vec3a, cgmath Vector3::new
Vector3_new(px, py, pz) == [x |-> px, y |-> py, z |-> pz]

\* new_2d with its arguments in the wrong order
new_2d_swapped(t, px, py) ==
    CASE t \in {"Vec2", "CgVector2"} -> Vector2_new(py, px)
      [] t = "Vec2A" -> <<Vector2_new(py, px)>>
      [] t \in Types3 -> Vector3_new(py, px, ZERO)

\* new_2d of a 3D type that fills z with ONE
new_2d_z_one(t, px, py) ==
    CASE t \in {"Vec2", "CgVector2"} -> Vector2_new(px, py)
      [] t = "Vec2A" -> <<Vector2_new(px, py)>>
      [] t \in Types3 -> Vector3_new(px, py, ONE)

\* HasXY::new_2d
new_2d(t, px, py) ==
    CASE t \in {"Vec2", "CgVector2"} -> Vector2_new(px, py)
      [] t = "Vec2A" -> <<Vector2_new(px, py)>>
      [] t \in {"Vec3", "CgVector3"} -> Vector3_new(px, py, ZERO)
      [] t = "Vec3A" -> Vector3_new(px, py, ZERO)

\* HasXYZ::new_3d
new_3d(t, px, py, pz) == Vector3_new(px, py, pz)

\* HasXY::x
x(t, h) == IF t = "Vec2A" THEN h[1].x ELSE h.x

\* HasXY::y
y(t, h) == IF t = "Vec2A" THEN h[1].y ELSE h.y

\* HasXYZ::z
z(t, h) == h.z

\* set_x that writes the y field
set_x_writes_y(t, h, val) ==
    IF t = "Vec2A" THEN [h EXCEPT ![1].y = val] ELSE [h EXCEPT !.y = val]

\* HasXY::set_x
set_x(t, h, val) ==
    IF t = "Vec2A" THEN [h EXCEPT ![1].x = val] ELSE [h EXCEPT !.x = val]

\* HasXY::set_y
set_y(t, h, val) ==
    IF t = "Vec2A" THEN [h EXCEPT ![1].y = val] ELSE [h EXCEPT !.y = val]

\* HasXYZ::set_z
set_z(t, h, val) == [h EXCEPT !.z = val]

\* HasXY::x_mut: the place the returned &mut Scalar refers to, as the path
\* of fields from the holder
x_mut(t, h) == IF t = "Vec2A" THEN <<1, "x">> ELSE <<"x">>

\* y_mut that hands out the x field
y_mut_of_x(t, h) == IF t = "Vec2A" THEN <<1, "x">> ELSE <<"x">>

\* HasXY::y_mut
y_mut(t, h) == IF t = "Vec2A" THEN <<1, "y">> ELSE <<"y">>

\* HasXYZ::z_mut
z_mut(t, h) == <<"z">>

\* `*place = val`: the holder after an assignment through a &mut Scalar
RECURSIVE Store(_, _, _)
Store(h, place, val) ==
    IF Len(place) = 1 THEN [h EXCEPT ![place[1]] = val]
    ELSE [h EXCEPT ![place[1]] = Store(h[place[1]], Tail(place), val)]

(***************************************************************************)
(* The coordinate holder: test_xy, test_xyz.  A holder of type ty is       *)
(* constructed and then written, axis by axis, through its setters and     *)
(* through its mutable references.                                         *)
(*   v     the holder                                                      *)
(*   alt   the holder the other way of writing would have left: the        *)
(*         reference for a setter call, the setter for a reference write   *)
(*   last  per axis, the value handed to the constructor or to the latest  *)
(*         write of that axis                                              *)
(*   nw    the number of writes so far                                     *)
(*   op    the latest operation                                            *)
(* simd tells whether glam is built with its SIMD Vec3A; no operation of   *)
(* a holder depends on it.                                                 *)
(***************************************************************************)

\* the number of writes to a holder
MaxWrites == 2

\* the values written, finite and not
Samples == {ZERO, ONE, Inf(1), NaN}

None == [k |-> "none"]

Init ==
    /\ (k = None /\ zc = None /\ r = None /\ simd = TRUE)
    /\ nw = 0
    /\ \E t \in Types, px \in Scalars, py \in Samples, pz \in Samples :
          /\ ty = t
          /\ \/ /\ op = "new_2d"
                /\ v = new_2d(t, px, py)
                /\ last = IF t \in Types3
                          THEN [x |-> px, y |-> py, z |-> ZERO]
                          ELSE [x |-> px, y |-> py]
             \/ /\ t \in Types3
                /\ op = "new_3d"
                /\ v = new_3d(t, px, py, pz)
                /\ last = [x |-> px, y |-> py, z |-> pz]
    /\ alt = v

Written(name, axis, val) ==
    /\ nw' = nw + 1
    /\ op' = name
    /\ last' = [last EXCEPT ![axis] = val]
    /\ UNCHANGED <<ty, k, zc, r, simd>>

\* v.set_x(val)
SetX ==
    /\ nw < MaxWrites
    /\ \E val \in Samples :
          /\ v' = set_x(ty, v, val)
          /\ alt' = Store(v, x_mut(ty, v), val)
          /\ Written("set_x", "x", val)

\* v.set_y(val)
SetY ==
    /\ nw < MaxWrites
    /\ \E val \in Samples :
          /\ v' = set_y(ty, v, val)
          /\ alt' = Store(v, y_mut(ty, v), val)
          /\ Written("set_y", "y", val)

\* v.set_z(val)
SetZ ==
    /\ nw < MaxWrites
    /\ ty \in Types3
    /\ \E val \in Samples :
          /\ v' = set_z(ty, v, val)
          /\ alt' = Store(v, z_mut(ty, v), val)
          /\ Written("set_z", "z", val)

\* *v.x_mut() = val
AssignXMut ==
    /\ nw < MaxWrites
    /\ \E val \in Samples :
          /\ v' = Store(v, x_mut(ty, v), val)
          /\ alt' = set_x(ty, v, val)
          /\ Written("x_mut", "x", val)

\* *v.y_mut() = val
AssignYMut ==
    /\ nw < MaxWrites
    /\ \E val \in Samples :
          /\ v' = Store(v, y_mut(ty, v), val)
          /\ alt' = set_y(ty, v, val)
          /\ Written("y_mut", "y", val)

\* *v.z_mut() = val
AssignZMut ==
    /\ nw < MaxWrites
    /\ ty \in Types3
    /\ \E val \in Samples :
          /\ v' = Store(v, z_mut(ty, v), val)
          /\ alt' = set_z(ty, v, val)
          /\ Written("z_mut", "z", val)

Next ==
    \/ SetX
    \/ SetY
    \/ SetZ
    \/ AssignXMut
    \/ AssignYMut
    \/ AssignZMut

Spec == Init /\ [][Next]_vars

(***************************************************************************)
(* Vector arithmetic and the change of dimension                           *)
(***************************************************************************)

\* GenericVector2::Vector3, the 3D partner of a 2D type
Vector3Of(t) ==
    CASE t = "Vec2" -> "Vec3"
      [] t = "Vec2A" -> "Vec3A"
      [] t = "CgVector2" -> "CgVector3"

\* GenericVector3::Vector2, the 2D partner of a 3D type
Vector2Of(t) ==
    CASE t = "Vec3" -> "Vec2"
      [] t = "Vec3A" -> "Vec2A"
      [] t = "CgVector3" -> "CgVector2"

\* to_3d that puts z into the y field
to_3d_z_as_y(t, h, pz) ==
    IF t = "Vec2A" THEN Vector3_new(h[1].x, pz, pz) ELSE Vector3_new(h.x, pz, pz)

\* GenericVector2::to_3d
to_3d(t, h, pz) ==
    IF t = "Vec2A" THEN Vector3_new(h[1].x, h[1].y, pz)
    ELSE Vector3_new(h.x, h.y, pz)

\* to_2d that keeps y and z
to_2d_drops_x(t, h) ==
    IF t = "Vec3A" THEN <<Vector2_new(h.y, h.z)>> ELSE Vector2_new(h.y, h.z)

\* GenericVector3::to_2d
to_2d(t, h) ==
    IF t = "Vec3A" THEN <<Vector2_new(h.x, h.y)>> ELSE Vector2_new(h.x, h.y)

\* Mul<Scalar>: self * rhs, field by field
mul(t, h, rhs) ==
    IF t = "Vec2A" THEN <<[f \in DOMAIN h[1] |-> FMul(h[1][f], rhs)]>>
    ELSE [f \in DOMAIN h |-> FMul(h[f], rhs)]

\* Div<Scalar>: self / rhs, field by field
div(t, h, rhs) ==
    IF t = "Vec2A" THEN <<[f \in DOMAIN h[1] |-> FDiv(h[1][f], rhs)]>>
    ELSE [f \in DOMAIN h |-> FDiv(h[f], rhs)]

\* PartialEq: self == other, every field == (derived for Vec2A and the
\* cgmath vectors, field by field in glam)
eq(t, a, b) ==
    IF t = "Vec2A" THEN \A f \in DOMAIN a[1] : FEq(a[1][f], b[1][f])
    ELSE \A f \in DOMAIN a : FEq(a[f], b[f])

\* the coordinates of a holder
Coords(t, h) == IF t \in Types3 THEN <<x(t, h), y(t, h), z(t, h)>>
                ELSE <<x(t, h), y(t, h)>>

\* GenericScalar::TWO
TWO == Fin(0, 2 * 2^Scale)

\* GenericScalar::THREE
THREE == Fin(0, 3 * 2^Scale)

\* 6.0, the factor of the conformance tests
Six == Fin(0, 6 * 2^Scale)

(***************************************************************************)
(* The change of dimension: test_gxy and test_gxyz.                        *)
(* For a 2D type ty:   r = (v * k).to_3d(zc).to_2d() / k, step by step.    *)
(* For a 3D type ty:   r = v.to_2d().to_3d(v.z()), step by step.           *)
(* op is the step taken last and r its result.                             *)
(***************************************************************************)

\* the factors k: powers of two, odd factors, a fraction, the extremes
Factors ==
    {ONE, TWO, THREE, Six, Fin(1, 2^(Scale - 1)), Fin(0, 5 * 2^(Scale - 2)),
     Fin(0, 1), Fin(0, MaxMag), ZERO, Inf(0), NaN}

ConvInit ==
    /\ (alt = None /\ last = None /\ nw = 0 /\ simd = TRUE)
    /\ op = "start"
    /\ r = None
    /\ \E t \in Types, px \in Scalars, py \in Samples, pz \in Samples :
          /\ ty = t
          /\ \/ /\ t \in Types2
                /\ v = new_2d(t, px, py)
                /\ k \in Factors
                /\ zc = pz
             \/ /\ t \in Types3
                /\ v = new_3d(t, px, py, pz)
                /\ k = None
                /\ zc = None

Step(name) == op' = name /\ UNCHANGED <<ty, v, alt, last, nw, k, zc, simd>>

\* v0 * mult
Mul ==
    /\ ty \in Types2
    /\ op = "start"
    /\ r' = mul(ty, v, k)
    /\ Step("mul")

\* .to_3d(z)
To3d ==
    /\ \/ /\ ty \in Types2
          /\ op = "mul"
          /\ r' = to_3d(ty, r, zc)
       \/ /\ ty \in Types3
          /\ op = "to_2d"
          /\ r' = to_3d(Vector2Of(ty), r, z(ty, v))
    /\ Step("to_3d")

\* .to_2d()
To2d ==
    /\ \/ /\ ty \in Types2
          /\ op = "to_3d"
          /\ r' = to_2d(Vector3Of(ty), r)
       \/ /\ ty \in Types3
          /\ op = "start"
          /\ r' = to_2d(ty, v)
    /\ Step("to_2d")

\* / mult
Div ==
    /\ ty \in Types2
    /\ op = "to_2d"
    /\ r' = div(ty, r, k)
    /\ Step("div")

ConvNext ==
    \/ Mul
    \/ To3d
    \/ To2d
    \/ Div

ConvSpec == ConvInit /\ [][ConvNext]_vars

(***************************************************************************)
(* Length and normalization                                                *)
(***************************************************************************)

\* dot that leaves out the third coordinate
dot_xy_only(t, a, b) ==
    LET p == IF t = "Vec2A" THEN a[1] ELSE a
        q == IF t = "Vec2A" THEN b[1] ELSE b
    IN  FAdd(FMul(p.x, q.x), FMul(p.y, q.y))

\* GenericVector2::dot / GenericVector3::dot: glam's dot and cgmath's
\* InnerSpace::dot, the products summed from the left
dot(t, a, b) ==
    LET p == IF t = "Vec2A" THEN a[1] ELSE a
        q == IF t = "Vec2A" THEN b[1] ELSE b
        xy == FAdd(FMul(p.x, q.x), FMul(p.y, q.y))
    IN  IF t \in Types3 THEN FAdd(xy, FMul(p.z, q.z)) ELSE xy

\* magnitude_sq: glam's length_squared, cgmath's magnitude2
magnitude_sq(t, h) == dot(t, h, h)

\* magnitude computed without the square root
magnitude_no_sqrt(t, h) == dot(t, h, h)

\* magnitude: glam's length, cgmath's InnerSpace::magnitude
magnitude(t, h) == FSqrt(dot(t, h, h))

\* normalize that returns zero-length vectors unchanged
normalize_guarded(t, h, sd) ==
    IF is_zero(magnitude(t, h)) THEN h
    ELSE mul(t, h, FDiv(ONE, magnitude(t, h)))

\* normalize that divides by the squared length
normalize_by_sq(t, h, sd) == div(t, h, magnitude_sq(t, h))

\* normalize: glam's normalize is self * self.length_recip(), and
\* self / length for the SIMD Vec3A (sd); cgmath's is
\* self * (one / self.magnitude()).  None of them tests the length.
normalize(t, h, sd) ==
    IF t = "Vec3A" /\ sd THEN div(t, h, magnitude(t, h))
    ELSE mul(t, h, FDiv(ONE, magnitude(t, h)))

\* Option::Some
Some(val) == [k |-> "some", val |-> val]

\* safe_normalize with the test of the length inverted
safe_normalize_inverted(t, h) ==
    LET l == magnitude(t, h)
    IN  IF is_zero(l) THEN Some(div(t, h, l)) ELSE None

\* safe_normalize that multiplies by the length
safe_normalize_mul(t, h) ==
    LET l == magnitude(t, h)
    IN  IF is_zero(l) THEN None ELSE Some(mul(t, h, l))

\* GenericVector2::safe_normalize / GenericVector3::safe_normalize
safe_normalize(t, h) ==
    LET l == magnitude(t, h)
    IN  IF t \in {"Vec2A", "Vec3A"}
        THEN (IF ~is_zero(l) THEN Some(div(t, h, l)) ELSE None)
        ELSE (IF is_zero(l) THEN None ELSE Some(div(t, h, l)))

(***************************************************************************)
(* Normalization: test_generic_xy and test_generic_xyz, lines 176-198 and  *)
(* 291-312.  For a vector v of type ty, step by step:                      *)
(*   r.mag  = v.magnitude()                                                *)
(*   r.n    = v.normalize()            r.nmag = r.n.magnitude()            *)
(*   r.u    = v.safe_normalize()       r.umag = the magnitude in Some      *)
(* A field is NotRun until its step has run; op is the step taken last.    *)
(***************************************************************************)

NotRun == [k |-> "notrun"]

\* the second and third coordinates: zeros, the smallest and the largest
\* values, ordinary values, infinity and NaN
Probes ==
    {ZERO, Fin(1, 0), Fin(0, 1), Fin(1, MinNormal), ONE, FNeg(TWO), THREE,
     Fin(0, 5 * 2^(Scale - 2)), Fin(0, MaxMag), Inf(0), NaN}

NormInit ==
    /\ (alt = None /\ last = None /\ nw = 0 /\ k = None /\ zc = None)
    /\ op = "start"
    /\ r = [mag |-> NotRun, n |-> NotRun, nmag |-> NotRun, u |-> NotRun,
            umag |-> NotRun]
    /\ \E t \in Types, px \in Scalars, py \in Probes, pz \in Samples :
          /\ ty = t
          /\ \/ /\ t \in Types2
                /\ v = new_2d(t, px, py)
             \/ /\ t \in Types3
                /\ v = new_3d(t, px, py, pz)
    /\ simd \in BOOLEAN
    /\ ty # "Vec3A" => simd

\* v0.magnitude()
Magnitude ==
    /\ op = "start"
    /\ r' = [r EXCEPT !.mag = magnitude(ty, v)]
    /\ Step("magnitude")

\* v0.normalize()
Normalize ==
    /\ op = "magnitude"
    /\ r' = [r EXCEPT !.n = normalize(ty, v, simd)]
    /\ Step("normalize")

\* normalized.magnitude()
MagnitudeOfNormalized ==
    /\ op = "normalize"
    /\ r' = [r EXCEPT !.nmag = magnitude(ty, r.n)]
    /\ Step("normalized.magnitude")

\* v0.safe_normalize()
SafeNormalize ==
    /\ op = "normalized.magnitude"
    /\ r' = [r EXCEPT !.u = safe_normalize(ty, v)]
    /\ Step("safe_normalize")

\* Some(v) => v.magnitude()
MagnitudeOfSafe ==
    /\ op = "safe_normalize"
    /\ r.u # None
    /\ r' = [r EXCEPT !.umag = magnitude(ty, r.u.val)]
    /\ Step("v.magnitude")

NormNext ==
    \/ Magnitude
    \/ Normalize
    \/ MagnitudeOfNormalized
    \/ SafeNormalize
    \/ MagnitudeOfSafe

NormSpec == NormInit /\ [][NormNext]_vars

(***************************************************************************)
(* The vector operators and products.  The operators of Vec2A are its own  *)
(* (they forward to the wrapped Vec2); those of the other types and the    *)
(* products are the libraries', which the traits forward to.               *)
(***************************************************************************)

\* Neg: -self, field by field
neg(t, h) ==
    IF t = "Vec2A" THEN <<[f \in DOMAIN h[1] |-> FNeg(h[1][f])]>>
    ELSE [f \in DOMAIN h |-> FNeg(h[f])]

\* Add: self + rhs, field by field
add(t, a, b) ==
    IF t = "Vec2A" THEN <<[f \in DOMAIN a[1] |-> FAdd(a[1][f], b[1][f])]>>
    ELSE [f \in DOMAIN a |-> FAdd(a[f], b[f])]

\* Sub: self - rhs, field by field
sub(t, a, b) ==
    IF t = "Vec2A" THEN <<[f \in DOMAIN a[1] |-> FSub(a[1][f], b[1][f])]>>
    ELSE [f \in DOMAIN a |-> FSub(a[f], b[f])]

\* AddAssign that assigns rhs
add_assign_rhs(t, a, b) == b

\* AddAssign: self += rhs, the new value of self
add_assign(t, a, b) ==
    IF t = "Vec2A" THEN <<[f \in DOMAIN a[1] |-> FAdd(a[1][f], b[1][f])]>>
    ELSE [f \in DOMAIN a |-> FAdd(a[f], b[f])]

\* the outcome of an indexing that is out of range
Panic == [k |-> "panic"]

\* Index<usize> that clamps the index to the last axis
index_clamped(t, h, i) ==
    LET p == IF t = "Vec2A" THEN h[1] ELSE h
    IN  IF t \in Types3
        THEN CASE i = 0 -> p.x
               [] i = 1 -> p.y
               [] OTHER -> p.z
        ELSE CASE i = 0 -> p.x
               [] OTHER -> p.y

\* Index<usize>: self[i]
index(t, h, i) ==
    LET p == IF t = "Vec2A" THEN h[1] ELSE h
    IN  IF t \in Types3
        THEN CASE i = 0 -> p.x
               [] i = 1 -> p.y
               [] i = 2 -> p.z
               [] OTHER -> Panic
        ELSE CASE i = 0 -> p.x
               [] i = 1 -> p.y
               [] OTHER -> Panic

\* perp_dot whose cgmath implementation has its terms interchanged
perp_dot_cg_swapped(t, a, b) ==
    LET p == IF t = "Vec2A" THEN a[1] ELSE a
        q == IF t = "Vec2A" THEN b[1] ELSE b
    IN  IF t = "CgVector2" THEN FSub(FMul(p.y, q.x), FMul(p.x, q.y))
        ELSE FSub(FMul(p.x, q.y), FMul(p.y, q.x))

\* perp_dot with the sign of the second product wrong
perp_dot_sum(t, a, b) ==
    LET p == IF t = "Vec2A" THEN a[1] ELSE a
        q == IF t = "Vec2A" THEN b[1] ELSE b
    IN  FAdd(FMul(p.x, q.y), FMul(p.y, q.x))

\* GenericVector2::perp_dot
perp_dot(t, a, b) ==
    LET p == IF t = "Vec2A" THEN a[1] ELSE a
        q == IF t = "Vec2A" THEN b[1] ELSE b
    IN  FSub(FMul(p.x, q.y), FMul(p.y, q.x))

\* cross with the sign wrong in the first coordinate
cross_with_sum(t, a, b) ==
    Vector3_new(FAdd(FMul(a.y, b.z), FMul(a.z, b.y)),
                FSub(FMul(a.z, b.x), FMul(a.x, b.z)),
                FSub(FMul(a.x, b.y), FMul(a.y, b.x)))

\* GenericVector3::cross: glam's Vec3::cross, cgmath's Vector3::cross
cross(t, a, b) ==
    IF t = "CgVector3"
    THEN Vector3_new(FSub(FMul(a.y, b.z), FMul(a.z, b.y)),
                     FSub(FMul(a.z, b.x), FMul(a.x, b.z)),
                     FSub(FMul(a.x, b.y), FMul(a.y, b.x)))
    ELSE Vector3_new(FSub(FMul(a.y, b.z), FMul(b.y, a.z)),
                     FSub(FMul(a.z, b.x), FMul(b.z, a.x)),
                     FSub(FMul(a.x, b.y), FMul(b.x, a.y)))

\* distance_sq that adds the operands
distance_sq_of_sum(t, a, b) == magnitude_sq(t, add(t, a, b))

\* GenericVector2::distance_sq / GenericVector3::distance_sq: glam's
\* (self - rhs).length_squared(), cgmath's (other - self).magnitude2()
distance_sq(t, a, b) ==
    IF t \in {"CgVector2", "CgVector3"} THEN magnitude_sq(t, sub(t, b, a))
    ELSE magnitude_sq(t, sub(t, a, b))

\* GenericVector2::distance / GenericVector3::distance: glam's
\* (self - rhs).length(), cgmath's distance2(self, other).sqrt()
distance(t, a, b) ==
    IF t \in {"CgVector2", "CgVector3"} THEN FSqrt(distance_sq(t, a, b))
    ELSE magnitude(t, sub(t, a, b))

(***************************************************************************)
(* Approximate equality: the scalars' AbsDiffEq and UlpsEq, which Approx   *)
(* applies once per axis.                                                  *)
(***************************************************************************)

\* a <= b of PartialOrd
FLe(a, b) == ~IsNaN(a) /\ ~IsNaN(b) /\ Ord(a) <= Ord(b)

\* the bits of a magnitude, read as an integer
RECURSIVE MagBits(_)
MagBits(m) == IF m < 2^(MantBits + 1) THEN m
              ELSE 2^MantBits + MagBits(m \div 2)

\* to_bits without the sign bit, of a value that is not NaN
to_bits(a) == IF IsInf(a) THEN (2^ExpBits - 1) * 2^MantBits ELSE MagBits(a.m)

\* signum: 1.0 for +0.0 and above, -1.0 for -0.0 and below, NaN for NaN
signum(a) == IF IsNaN(a) THEN NaN ELSE IF a.s = 1 THEN FNeg(ONE) ELSE ONE

\* AbsDiffEq::default_epsilon
default_epsilon == EPSILON

\* UlpsEq::default_max_ulps
default_max_ulps == 4

\* AbsDiffEq::abs_diff_eq of a scalar: abs(self - other) <= epsilon
abs_diff_eq(a, b, eps) == FLe(FAbs(FSub(a, b)), eps)

\* UlpsEq::ulps_eq of a scalar
ulps_eq(a, b, eps, max_ulps) ==
    IF abs_diff_eq(a, b, eps) THEN TRUE
    ELSE IF ~FEq(signum(a), signum(b)) THEN FALSE
    ELSE IF to_bits(a) <= to_bits(b) THEN to_bits(b) - to_bits(a) <= max_ulps
    ELSE to_bits(a) - to_bits(b) <= max_ulps

\* is_ulps_eq that leaves out the last axis
is_ulps_eq_short(t, a, b, eps, max_ulps) ==
    ulps_eq(x(t, a), x(t, b), eps, max_ulps)
    /\ (t \in Types3 => ulps_eq(y(t, a), y(t, b), eps, max_ulps))

\* is_ulps_eq that is true of every pair
is_ulps_eq_any(t, a, b, eps, max_ulps) == TRUE

\* Approx::is_ulps_eq
is_ulps_eq(t, a, b, eps, max_ulps) ==
    CASE t \in {"Vec2", "Vec2A"} ->
             ulps_eq(x(t, a), x(t, b), eps, max_ulps)
             /\ ulps_eq(y(t, a), y(t, b), eps, max_ulps)
      [] t = "CgVector2" ->
             ulps_eq(a.x, b.x, eps, max_ulps)
             /\ ulps_eq(a.y, b.y, eps, max_ulps)
      [] t \in Types3 ->
             ulps_eq(a.x, b.x, eps, max_ulps)
             /\ ulps_eq(a.y, b.y, eps, max_ulps)
             /\ ulps_eq(a.z, b.z, eps, max_ulps)

\* is_abs_diff_eq that compares the bits
is_abs_diff_eq_bits(t, a, b, eps) == a = b

\* Approx::is_abs_diff_eq
is_abs_diff_eq(t, a, b, eps) ==
    CASE t \in {"Vec2", "Vec2A"} ->
             abs_diff_eq(x(t, a), x(t, b), eps)
             /\ abs_diff_eq(y(t, a), y(t, b), eps)
      [] t = "CgVector2" ->
             abs_diff_eq(a.x, b.x, eps) /\ abs_diff_eq(a.y, b.y, eps)
      [] t \in Types3 ->
             abs_diff_eq(a.x, b.x, eps)
             /\ abs_diff_eq(a.y, b.y, eps)
             /\ abs_diff_eq(a.z, b.z, eps)

(***************************************************************************)
(* The products and distances: test_generic_xy and test_generic_xyz.       *)
(*   v is v0 and alt is v1: v0 with every coordinate multiplied by k, or   *)
(*   a second vector of its own when k is None.                            *)
(*   r is the result of the operation op on v0 and v1.                     *)
(***************************************************************************)

\* the second coordinate of v0
Seconds == {ZERO, ONE, FNeg(THREE), Fin(0, MaxMag), NaN}

\* the third coordinate of v0
Thirds == {ZERO, ONE, Inf(1)}

\* the factors mult
Mults == {ONE, Six, Fin(0, 5 * 2^(Scale - 2)), ZERO, Fin(0, 1), Inf(0)}

\* second vectors that are no multiple of the first
Others2 == {<<ZERO, ZERO>>, <<ONE, FNeg(TWO)>>, <<Fin(0, 1), THREE>>,
            <<Inf(0), ONE>>}

Others3 == {<<ZERO, ZERO, ZERO>>, <<ONE, FNeg(TWO), THREE>>,
            <<Fin(0, 1), ZERO, Fin(0, 1)>>, <<NaN, ONE, Inf(0)>>}

ProdInit ==
    /\ (last = None /\ nw = 0 /\ zc = None /\ simd = TRUE)
    /\ op = "start"
    /\ r = None
    /\ \E t \in Types, px \in Scalars, py \in Seconds, pz \in Thirds :
          /\ ty = t
          /\ v = IF t \in Types2 THEN new_2d(t, px, py)
                 ELSE new_3d(t, px, py, pz)
          /\ \/ /\ k \in Mults
                /\ alt = v
             \/ /\ k = None
                /\ \/ /\ t \in Types2
                      /\ \E o \in Others2 : alt = new_2d(t, o[1], o[2])
                   \/ /\ t \in Types3
                      /\ \E o \in Others3 : alt = new_3d(t, o[1], o[2], o[3])

\* v1.set_x(v1.x() * mult); v1.set_y(v1.y() * mult); [v1.set_z(...)]
Scaled(t, h, mult) ==
    LET h1 == set_x(t, h, FMul(x(t, h), mult))
        h2 == set_y(t, h1, FMul(y(t, h1), mult))
    IN  IF t \in Types3 THEN set_z(t, h2, FMul(z(t, h2), mult)) ELSE h2

ScaleV1 ==
    /\ op = "start"
    /\ k # None
    /\ alt' = Scaled(ty, alt, k)
    /\ op' = "scale"
    /\ UNCHANGED <<ty, v, last, nw, k, zc, r, simd>>

\* v1 is ready: scaled, or given
Ready == op = "scale" \/ (op = "start" /\ k = None)

ProdStep(name) ==
    /\ Ready
    /\ op' = name
    /\ UNCHANGED <<ty, v, alt, last, nw, k, zc, simd>>

\* v0.magnitude(); v0.magnitude_sq()
MagnitudeSq ==
    /\ ProdStep("magnitude_sq")
    /\ r' = [magnitude |-> magnitude(ty, v),
             magnitude_sq |-> magnitude_sq(ty, v)]

\* v0.dot(v1)
Dot ==
    /\ ProdStep("dot")
    /\ r' = dot(ty, v, alt)

\* v0.perp_dot(v1)
PerpDot ==
    /\ ProdStep("perp_dot")
    /\ ty \in Types2
    /\ r' = perp_dot(ty, v, alt)

\* v0.cross(v1)
Cross ==
    /\ ProdStep("cross")
    /\ ty \in Types3
    /\ r' = cross(ty, v, alt)

\* v0.distance(v1); v0.distance_sq(v1)
Distance ==
    /\ ProdStep("distance")
    /\ r' = [distance |-> distance(ty, v, alt),
             distance_sq |-> distance_sq(ty, v, alt)]

ProdNext ==
    \/ ScaleV1
    \/ MagnitudeSq
    \/ Dot
    \/ PerpDot
    \/ Cross
    \/ Distance

ProdSpec == ProdInit /\ [][ProdNext]_vars

(***************************************************************************)
(* Approximate equality of two vectors: test_generic_xy and                *)
(* test_generic_xyz.  v is v0 and alt is v1 (v0 itself, v0 with every      *)
(* coordinate multiplied by k, or a second vector of its own); k is mult,  *)
(* zc the epsilon and nw the max_ulps handed in; r is the result of op.    *)
(***************************************************************************)

\* the largest max_ulps tried
MaxUlps == 5

\* h with its second coordinate, if finite, moved up by whole steps of the
\* format
Nudged(t, h, steps) ==
    LET c == y(t, h)
    IN  IF ~is_finite(c) THEN h
        ELSE IF c.m + steps * Spacing(c.m) <= MaxMag
        THEN set_y(t, h, Fin(c.s, c.m + steps * Spacing(c.m)))
        ELSE set_y(t, h, Inf(c.s))

ApproxInit ==
    /\ (last = None /\ simd = TRUE)
    /\ op = "start"
    /\ r = None
    /\ \E tol \in {<<default_epsilon, default_max_ulps>>, <<ZERO, 0>>,
                   <<ZERO, MaxUlps>>} :
          zc = tol[1] /\ nw = tol[2]
    /\ \E t \in Types, px \in Scalars, py \in Seconds, pz \in {ONE, Inf(1)} :
          /\ ty = t
          /\ v = IF t \in Types2 THEN new_2d(t, px, py)
                 ELSE new_3d(t, px, py, pz)
          /\ \/ /\ k \in {Six, TWO, Fin(0, 5 * 2^(Scale - 2)), ZERO, FNeg(ONE)}
                /\ alt = Scaled(t, v, k)
             \/ /\ k = None
                /\ \E steps \in {0, 1, MaxUlps} : alt = Nudged(t, v, steps)

\* one call on the values under test, which it leaves as they are
Call(name) ==
    /\ op = "start"
    /\ op' = name
    /\ UNCHANGED <<ty, v, alt, last, nw, k, zc, simd>>

\* v0.is_ulps_eq(v1, epsilon, max_ulps)
UlpsEq ==
    /\ Call("is_ulps_eq")
    /\ r' = is_ulps_eq(ty, v, alt, zc, nw)

\* v0.is_abs_diff_eq(v1, epsilon)
AbsDiffEq ==
    /\ Call("is_abs_diff_eq")
    /\ r' = is_abs_diff_eq(ty, v, alt, zc)

ApproxNext ==
    \/ UlpsEq
    \/ AbsDiffEq

ApproxSpec == ApproxInit /\ [][ApproxNext]_vars

(***************************************************************************)
(* The operators and indexing of test_gxy: v0 += -v1 - v1 + v1 + v1, then  *)
(* v0[0] and v0[1].  v is v0, alt is v1, last is v0 as constructed, zc     *)
(* counts the += performed, nw is the index last used and r what it gave.  *)
(***************************************************************************)

\* the largest index tried
MaxIndex == 3

OpsInit ==
    /\ op = "start"
    /\ r = None
    /\ nw = 0
    /\ zc = 0
    /\ simd = TRUE
    /\ \E t \in Types, px \in Scalars, py \in Seconds, pz \in {ONE, Inf(1)} :
          /\ ty = t
          /\ v = IF t \in Types3 THEN new_3d(t, px, py, pz)
                 ELSE new_2d(t, px, py)
          /\ last = v
          /\ \/ /\ k \in {Six, ZERO, Inf(0)}
                /\ alt = Scaled(t, v, k)
             \/ /\ k = None
                /\ IF t \in Types3
                   THEN \E o \in {<<Fin(0, MaxMag), FNeg(TWO), THREE>>,
                                  <<NaN, ONE, Inf(0)>>} :
                           alt = new_3d(t, o[1], o[2], o[3])
                   ELSE \E o \in {<<Fin(0, MaxMag), FNeg(TWO)>>, <<NaN, ONE>>} :
                           alt = new_2d(t, o[1], o[2])

\* v0 += -v1 - v1 + v1 + v1
AddAssign ==
    /\ zc = 0
    /\ zc' = 1
    /\ op' = "add_assign"
    /\ v' = add_assign(ty, v,
                add(ty, add(ty, sub(ty, neg(ty, alt), alt), alt), alt))
    /\ r' = None
    /\ nw' = 0
    /\ UNCHANGED <<ty, alt, last, k, simd>>

\* v0[i]
Index ==
    \E i \in 0..MaxIndex :
        /\ op' = "index"
        /\ nw' = i
        /\ r' = index(ty, v, i)
        /\ UNCHANGED <<ty, v, alt, last, k, zc, simd>>

OpsNext == AddAssign \/ Index

OpsSpec == OpsInit /\ [][OpsNext]_vars

(***************************************************************************)
(* The scalar operations of GenericScalar, as test_xy uses them.  v is     *)
(* self, alt and last are the bounds min and max handed to clamp, r is     *)
(* what the operation returned.                                            *)
(***************************************************************************)

\* GenericScalar::to_bits, sign bit included; NaN is the quiet NaN
GenericScalar_to_bits(a) ==
    IF IsNaN(a) THEN (2^ExpBits - 1) * 2^MantBits + 2^(MantBits - 1)
    ELSE a.s * 2^(ExpBits + MantBits) + to_bits(a)

\* GenericScalar::from_bits
from_bits(bits) ==
    LET s == bits \div 2^(ExpBits + MantBits)
        e == (bits % 2^(ExpBits + MantBits)) \div 2^MantBits
        f == bits % 2^MantBits
    IN  IF e = 2^ExpBits - 1 THEN (IF f = 0 THEN Inf(s) ELSE NaN)
        ELSE IF e = 0 THEN Fin(s, f)
        ELSE Fin(s, (2^MantBits + f) * 2^(e - 1))

\* clamp without the lower bound
clamp_above_only(self, min, max) ==
    IF ~FLe(min, max) THEN Panic
    ELSE IF FLt(max, self) THEN max ELSE self

\* clamp without the assertion on its bounds
clamp_unchecked(self, min, max) ==
    LET low == IF FLt(self, min) THEN min ELSE self
    IN  IF FLt(max, low) THEN max ELSE low

\* GenericScalar::clamp, that is f32::clamp / f64::clamp:
\* assert!(min <= max); if self < min { self = min }
\* if self > max { self = max }; self
clamp(self, min, max) ==
    IF ~FLe(min, max) THEN Panic
    ELSE LET low == IF FLt(self, min) THEN min ELSE self
         IN  IF FLt(max, low) THEN max ELSE low

Five == Fin(0, 5 * 2^Scale)

Eight == Fin(0, 2^(Scale + 3))

ScalarInit ==
    /\ op = "start"
    /\ r = None
    /\ ty = "Vec2"
    /\ k = None
    /\ zc = None
    /\ nw = 0
    /\ simd = TRUE
    /\ v \in Scalars
    /\ \E min, max \in {FNeg(ONE), Fin(1, 0), ZERO, Six, Eight, Inf(1), Inf(0),
                       NaN} :
          alt = min /\ last = max

\* self.clamp(min, max)
Clamp == Call("clamp") /\ r' = clamp(v, alt, last)

\* self.to_bits()
ToBits == Call("to_bits") /\ r' = GenericScalar_to_bits(v)

\* Scalar::from_bits(self.to_bits())
FromBits == Call("from_bits") /\ r' = from_bits(GenericScalar_to_bits(v))

\* self.is_finite()
IsFinite == Call("is_finite") /\ r' = is_finite(v)

\* self.is_normal()
IsNormal == Call("is_normal") /\ r' = is_normal(v)

\* self * mult
Times == Call("mul") /\ r' = FMul(v, alt)

ScalarNext == Clamp \/ ToBits \/ FromBits \/ IsFinite \/ IsNormal \/ Times

ScalarSpec == ScalarInit /\ [][ScalarNext]_vars

(***************************************************************************)
(* The Vec2A wrapper and its conversions: test_vec2a.  last holds the      *)
(* coordinates given, v the Vec2A built from them, zc the way it was       *)
(* built once it is converted back, r the Vec2 it converts into.           *)
(***************************************************************************)

\* Vec2A::new
Vec2A_new(px, py) == <<Vector2_new(px, py)>>

\* From<Vec2> for Vec2A
from_Vec2(w) == <<w>>

\* From<Vec2A> for Vec2
into_Vec2(a) == a[1]

\* From<(f32, f32)> for Vec2A
from_tuple(tuple) == <<Vector2_new(tuple[1], tuple[2])>>

\* From<[f32; 2]> that reads the array backwards
from_array_reversed(array) == <<Vector2_new(array[1], array[0])>>

\* From<[f32; 2]> for Vec2A
from_array(array) == <<Vector2_new(array[0], array[1])>>

\* the ways test_vec2a builds a Vec2A
Ways == {"from_tuple", "from_array", "from_Vec2", "Vec2A_new"}

WrapInit ==
    /\ op = "start"
    /\ ty = "Vec2A"
    /\ v = None
    /\ alt = None
    /\ r = None
    /\ k = None
    /\ zc = None
    /\ nw = 0
    /\ simd = TRUE
    /\ \E px \in Scalars, py \in Seconds : last = Vector2_new(px, py)

Built(name, a) ==
    /\ op = "start"
    /\ op' = name
    /\ v' = a
    /\ UNCHANGED <<ty, alt, last, nw, k, zc, r, simd>>

\* let a: Vec2A = (x, y).into()
FromTuple == Built("from_tuple", from_tuple(<<last.x, last.y>>))

\* let b: Vec2A = [x, y].into()
FromArray ==
    Built("from_array", from_array([i \in 0..1 |-> IF i = 0 THEN last.x
                                                   ELSE last.y]))

\* let c: Vec2A = glam::vec2(x, y).into()
FromVec2 == Built("from_Vec2", from_Vec2(Vector2_new(last.x, last.y)))

\* let a = Vec2A::new(x, y)
New == Built("Vec2A_new", Vec2A_new(last.x, last.y))

\* let d: glam::Vec2 = c.into()
IntoVec2 ==
    /\ op \in Ways
    /\ op' = "into_Vec2"
    /\ zc' = op
    /\ r' = into_Vec2(v)
    /\ UNCHANGED <<ty, v, alt, last, nw, k, simd>>

WrapNext == FromTuple \/ FromArray \/ FromVec2 \/ New \/ IntoVec2

WrapSpec == WrapInit /\ [][WrapNext]_vars

(***************************************************************************)
(* One operation on every backend: generic code handed the coordinates v   *)
(* (and alt for the second operand) builds the vector of each implementor  *)
(* and applies the operation; r maps each implementor to what it returned. *)
(***************************************************************************)

\* the vector of type t with the coordinates c
Make(t, c) ==
    IF t \in Types3 THEN new_3d(t, c[1], c[2], c[3]) ELSE new_2d(t, c[1], c[2])

BackendInit ==
    /\ op = "start"
    /\ r = None
    /\ ty = "Vec2"
    /\ last = None
    /\ k = None
    /\ zc = default_epsilon
    /\ nw = default_max_ulps
    /\ simd = TRUE
    /\ \E px \in Scalars, py \in Seconds, pz \in {ONE, Inf(1)} :
          v = <<px, py, pz>>
    /\ \/ \E mult \in {Six, Fin(0, 5 * 2^(Scale - 2)), Fin(0, 1)} :
             alt = <<FMul(v[1], mult), FMul(v[2], mult), FMul(v[3], mult)>>
       \/ alt \in {<<ONE, FNeg(TWO), THREE>>, <<Fin(0, MaxMag), ZERO, Fin(0, 1)>>}

OnNew2d ==
    /\ Call("new_2d")
    /\ r' = [t \in Types |-> new_2d(t, v[1], v[2])]

OnNew3d ==
    /\ Call("new_3d")
    /\ r' = [t \in Types3 |-> new_3d(t, v[1], v[2], v[3])]

OnTo3d ==
    /\ Call("to_3d")
    /\ r' = [t \in Types2 |-> to_3d(t, Make(t, v), v[3])]

OnTo2d ==
    /\ Call("to_2d")
    /\ r' = [t \in Types3 |-> to_2d(t, Make(t, v))]

OnMagnitudeSq ==
    /\ Call("magnitude_sq")
    /\ r' = [t \in Types |-> magnitude_sq(t, Make(t, v))]

OnDot ==
    /\ Call("dot")
    /\ r' = [t \in Types |-> dot(t, Make(t, v), Make(t, alt))]

OnPerpDot ==
    /\ Call("perp_dot")
    /\ r' = [t \in Types2 |-> perp_dot(t, Make(t, v), Make(t, alt))]

OnCross ==
    /\ Call("cross")
    /\ r' = [t \in Types3 |-> cross(t, Make(t, v), Make(t, alt))]

OnDistanceSq ==
    /\ Call("distance_sq")
    /\ r' = [t \in Types |-> distance_sq(t, Make(t, v), Make(t, alt))]

OnSafeNormalize ==
    /\ Call("safe_normalize")
    /\ r' = [t \in Types |-> safe_normalize(t, Make(t, v))]

OnUlpsEq ==
    /\ Call("is_ulps_eq")
    /\ r' = [t \in Types |-> is_ulps_eq(t, Make(t, v), Make(t, alt), zc, nw)]

OnAbsDiffEq ==
    /\ Call("is_abs_diff_eq")
    /\ r' = [t \in Types |-> is_abs_diff_eq(t, Make(t, v), Make(t, alt), zc)]

BackendNext ==
    \/ OnNew2d
    \/ OnNew3d
    \/ OnTo3d
    \/ OnTo2d
    \/ OnMagnitudeSq
    \/ OnDot
    \/ OnPerpDot
    \/ OnCross
    \/ OnDistanceSq
    \/ OnSafeNormalize
    \/ OnUlpsEq
    \/ OnAbsDiffEq

BackendSpec == BackendInit /\ [][BackendNext]_vars

(***************************************************************************)
(* Copies and their writes: `let mut v1 = v0` of test_gxy and              *)
(* test_generic_xyz.  v is the memory, a sequence of places that hold      *)
(* vectors: v0 lives in place 1; alt is the place v1 is bound to, 0 before *)
(* the let; last is v0 as constructed; nw counts the writes to v1; r is    *)
(* what the last read-only operation returned.                             *)
(***************************************************************************)

\* a let that binds the new name to the place of the old one
let_alias(place) == place

\* `let mut v1 = v0` for a Copy type (HasXY: Copy): the place of v1, a new
\* one, which receives the bits of v0
let_copy(place) == place + 1

ValueInit ==
    /\ op = "start"
    /\ r = None
    /\ alt = 0
    /\ nw = 0
    /\ k = Six
    /\ zc = None
    /\ simd = TRUE
    /\ \E t \in Types, px \in Samples, py \in {ONE, NaN} :
          /\ ty = t
          /\ last = IF t \in Types3 THEN new_3d(t, px, py, THREE)
                    ELSE new_2d(t, px, py)
          /\ v = <<last, None>>

\* let mut v1 = v0
LetV1 ==
    /\ alt = 0
    /\ alt' = let_copy(1)
    /\ v' = [v EXCEPT ![alt'] = v[1]]
    /\ op' = "let"
    /\ UNCHANGED <<ty, last, nw, k, zc, r, simd>>

\* v1.set_x(val), v1.set_y(val), v1.set_z(val)
SetV1 ==
    /\ alt # 0
    /\ nw < MaxWrites
    /\ nw' = nw + 1
    /\ \E val \in {ZERO, Inf(1)} :
          \/ op' = "set_x" /\ v' = [v EXCEPT ![alt] = set_x(ty, v[alt], val)]
          \/ op' = "set_y" /\ v' = [v EXCEPT ![alt] = set_y(ty, v[alt], val)]
          \/ /\ ty \in Types3
             /\ op' = "set_z"
             /\ v' = [v EXCEPT ![alt] = set_z(ty, v[alt], val)]
    /\ UNCHANGED <<ty, alt, last, k, zc, r, simd>>

\* *v1.x_mut() = val, *v1.y_mut() = val, *v1.z_mut() = val
AssignV1 ==
    /\ alt # 0
    /\ nw < MaxWrites
    /\ nw' = nw + 1
    /\ \E val \in {ZERO, Inf(1)} :
          \/ /\ op' = "x_mut"
             /\ v' = [v EXCEPT ![alt] = Store(v[alt], x_mut(ty, v[alt]), val)]
          \/ /\ op' = "y_mut"
             /\ v' = [v EXCEPT ![alt] = Store(v[alt], y_mut(ty, v[alt]), val)]
          \/ /\ ty \in Types3
             /\ op' = "z_mut"
             /\ v' = [v EXCEPT ![alt] = Store(v[alt], z_mut(ty, v[alt]), val)]
    /\ UNCHANGED <<ty, alt, last, k, zc, r, simd>>

\* an operation that takes its operands by value or by shared reference,
\* applied to v0 (and v1): the operands are copied in, the memory stays
ReadOnly ==
    /\ alt # 0
    /\ \E name \in {"x", "y", "magnitude", "dot", "distance", "normalize",
                    "safe_normalize", "is_ulps_eq", "is_abs_diff_eq", "add",
                    "sub", "mul", "div", "neg"}
                   \cup (IF ty \in Types3 THEN {"z", "to_2d", "cross"}
                         ELSE {"to_3d", "perp_dot"}) :
          /\ op' = name
          /\ r' = CASE name = "x" -> x(ty, v[1])
                    [] name = "y" -> y(ty, v[1])
                    [] name = "z" -> z(ty, v[1])
                    [] name = "to_3d" -> to_3d(ty, v[1], THREE)
                    [] name = "to_2d" -> to_2d(ty, v[1])
                    [] name = "magnitude" -> magnitude(ty, v[1])
                    [] name = "dot" -> dot(ty, v[1], v[alt])
                    [] name = "perp_dot" -> perp_dot(ty, v[1], v[alt])
                    [] name = "cross" -> cross(ty, v[1], v[alt])
                    [] name = "distance" -> distance(ty, v[1], v[alt])
                    [] name = "normalize" -> normalize(ty, v[1], simd)
                    [] name = "safe_normalize" -> safe_normalize(ty, v[1])
                    [] name = "is_ulps_eq" ->
                         is_ulps_eq(ty, v[1], v[alt], default_epsilon,
                                    default_max_ulps)
                    [] name = "is_abs_diff_eq" ->
                         is_abs_diff_eq(ty, v[1], v[alt], default_epsilon)
                    [] name = "add" -> add(ty, v[1], v[alt])
                    [] name = "sub" -> sub(ty, v[1], v[alt])
                    [] name = "mul" -> mul(ty, v[1], k)
                    [] name = "div" -> div(ty, v[1], k)
                    [] name = "neg" -> neg(ty, v[1])
    /\ UNCHANGED <<ty, v, alt, last, nw, k, zc, simd>>

ValueNext == LetV1 \/ SetV1 \/ AssignV1 \/ ReadOnly

ValueSpec == ValueInit /\ [][ValueNext]_vars

(***************************************************************************)
(* Properties of the coordinate holder                                     *)
(***************************************************************************)

\* C1: a holder constructed by new_2d(x, y) from finite x and y reads back
\* x() == x and y() == y, and one constructed by new_3d(x, y, z) from finite
\* x, y and z reads back x() == x, y() == y and z() == z, under the scalars'
\* own ==, for every vector type.
C1_ConstructedReadsBack ==
    /\ (op = "new_2d" /\ is_finite(last.x) /\ is_finite(last.y))
          => FEq(x(ty, v), last.x) /\ FEq(y(ty, v), last.y)
    /\ (op = "new_3d" /\ is_finite(last.x) /\ is_finite(last.y) /\ is_finite(last.z))
          => FEq(x(ty, v), last.x) /\ FEq(y(ty, v), last.y) /\ FEq(z(ty, v), last.z)

\* C1: a Vec2A and a Vec3A just constructed from finite, pairwise different
\* coordinates
C1_Witness ==
    /\ nw = 0
    /\ \/ op = "new_2d" /\ ty = "Vec2A"
       \/ op = "new_3d" /\ ty = "Vec3A" /\ z(ty, v) = ONE
    /\ is_finite(last.x)
    /\ x(ty, v) = FNeg(EPSILON)
    /\ y(ty, v) = ZERO

\* C2: after any sequence of writes through the setters and the mutable
\* references, every accessor returns the value written last to its axis,
\* or the constructor's value if the axis was never written; so a write to
\* one axis changes no other axis.
C2_LastWritten ==
    /\ x(ty, v) = last.x
    /\ y(ty, v) = last.y
    /\ ty \in Types3 => z(ty, v) = last.z

\* C2: a 3D holder after MaxWrites writes, the last one set_z(-inf), whose x
\* is still the constructor's
C2_Witness ==
    /\ nw = MaxWrites
    /\ op = "set_z"
    /\ ty = "CgVector3"
    /\ z(ty, v) = Inf(1)
    /\ x(ty, v) = EPSILON
    /\ y(ty, v) = NaN

\* C3: writing val through the mutable reference of an axis and writing val
\* through the setter of that axis, from the same holder, leave the same
\* holder, for every val, the infinities and NaN included.
C3_SetterEqualsReference == alt = v

\* C3: NaN stored through y_mut of a Vec2A
C3_Witness ==
    /\ op = "y_mut"
    /\ ty = "Vec2A"
    /\ IsNaN(y(ty, v))
    /\ ~IsNaN(x(ty, v))
    /\ alt = v

ExactProduct(a, b) ==
    /\ is_finite(a)
    /\ is_finite(b)
    /\ LET ra == Reduce(a.m, 2^Scale)
           rb == Reduce(b.m, ra[2])
           p == ra[1] * rb[1]
       IN  rb[2] = 1 /\ p <= MaxMag /\ p % Spacing(p) = 0

\* C5 as stated, on finite vectors and finite factors: for all 2D vectors v,
\* all nonzero k and any z, (v * k).to_3d(z).to_2d() / k == v.
C5_RoundTripAnyFactor ==
    (/\ op = "div"
     /\ is_finite(x(ty, v))
     /\ is_finite(y(ty, v))
     /\ is_finite(k)
     /\ ~is_zero(k))
       => eq(ty, r, v)

\* C5, amended: for all finite 2D vectors v, all finite nonzero k for which
\* the products x * k and y * k are exact (no rounding, no overflow, no
\* underflow) and any z, (v * k).to_3d(z).to_2d() / k == v, and the
\* result is of the type of v.
C5_RoundTripExactFactor ==
    (/\ op = "div"
     /\ ~is_zero(k)
     /\ ExactProduct(x(ty, v), k)
     /\ ExactProduct(y(ty, v), k))
       => /\ eq(ty, r, v)
          /\ FEq(x(ty, r), x(ty, v))
          /\ FEq(y(ty, r), y(ty, v))

\* C5: (v * 6.0).to_3d(NaN).to_2d() / 6.0 of the Vec2A v = (-0.5, 1.0)
C5_Witness ==
    /\ op = "div"
    /\ ty = "Vec2A"
    /\ k = Six
    /\ IsNaN(zc)
    /\ y(ty, v) = ONE
    /\ x(ty, v) = Fin(1, 2^(Scale - 1))
    /\ ExactProduct(x(ty, v), k)
    /\ eq(ty, r, v)

\* no coordinate of the holder is NaN
NoNaN(t, h) == \A i \in DOMAIN Coords(t, h) : ~IsNaN(Coords(t, h)[i])

\* C6 as stated: for every 3D vector v, v.to_2d().to_3d(v.z()) == v.
C6_RoundTripEveryVector ==
    (ty \in Types3 /\ op = "to_3d") => eq(ty, r, v)

\* C6, amended: for every 3D vector v none of whose coordinates is NaN,
\* v.to_2d().to_3d(v.z()) == v; for every 3D vector v, NaN or not, the
\* round trip returns the coordinates of v bit for bit, and to_2d() is the
\* 2D partner's new_2d(v.x(), v.y()): it keeps x and y and drops z.
C6_RoundTripNoNaN ==
    /\ (ty \in Types3 /\ op = "to_3d")
          => /\ r = v
             /\ NoNaN(ty, v) => eq(ty, r, v)
    /\ (ty \in Types3 /\ op = "to_2d")
          => /\ r = new_2d(Vector2Of(ty), x(ty, v), y(ty, v))
             /\ x(Vector2Of(ty), r) = x(ty, v)
             /\ y(Vector2Of(ty), r) = y(ty, v)
             /\ Coords(Vector2Of(ty), r) = <<x(ty, v), y(ty, v)>>

\* C6: a Vec3A (x, 1.0, -inf) with finite nonzero x, after the round trip
C6_Witness ==
    /\ ty = "Vec3A"
    /\ op = "to_3d"
    /\ x(ty, v) = FNeg(EPSILON)
    /\ y(ty, v) = ONE
    /\ z(ty, v) = Inf(1)
    /\ eq(ty, r, v)

(***************************************************************************)
(* Properties of normalization                                             *)
(***************************************************************************)

\* normalize() has run / safe_normalize() has run
NormalizeRan == op \in {"normalize", "normalized.magnitude", "safe_normalize",
                        "v.magnitude"}
SafeRan == op \in {"safe_normalize", "v.magnitude"}

\* every coordinate is +0 or -0
AllZero(t, h) == \A i \in DOMAIN Coords(t, h) : is_zero(Coords(t, h)[i])

\* every coordinate's square rounds to zero
AllSquaresZero(t, h) ==
    \A i \in DOMAIN Coords(t, h) :
        is_zero(FMul(Coords(t, h)[i], Coords(t, h)[i]))

\* C7 as stated: safe_normalize(v) is None if and only if every coordinate
\* of v is zero.
C7_NoneIffZeroVector ==
    SafeRan => (r.u = None <=> AllZero(ty, v))

\* C7, amended: safe_normalize(v) is None if and only if the computed
\* magnitude of v is exactly zero, which is when the square of every
\* coordinate rounds to zero; the zero vector gives None, and a vector with
\* a coordinate whose square is not zero (or is NaN) gives Some.
C7_NoneIffZeroMagnitude ==
    SafeRan =>
        /\ r.u = None <=> is_zero(r.mag)
        /\ r.u = None <=> AllSquaresZero(ty, v)
        /\ AllZero(ty, v) => r.u = None
        /\ r.u # None => r.u.k = "some"

\* C7: a cgmath 3D vector whose only nonzero coordinate is the smallest
\* subnormal has a zero magnitude and no normalized form
C7_Witness ==
    /\ op = "safe_normalize"
    /\ ty = "CgVector3"
    /\ x(ty, v) = Fin(0, 1)
    /\ y(ty, v) = Fin(1, 0)
    /\ z(ty, v) = ZERO
    /\ is_zero(r.mag)
    /\ r.u = None

\* abs(a - 1) < tol, with the scalars' own subtraction and comparison
Within(a, tol) == FLt(FAbs(FSub(a, ONE)), tol)

\* 4 * EPSILON
FourEpsilon == FMul(FAdd(TWO, TWO), EPSILON)

\* magnitude_sq(v) is computed without underflow and without overflow: v is
\* finite and not zero, the square of every nonzero coordinate is a normal
\* number, and the sum of the squares is finite
SquaresInRange(t, h) ==
    /\ \A i \in DOMAIN Coords(t, h) :
          /\ is_finite(Coords(t, h)[i])
          /\ \/ is_zero(Coords(t, h)[i])
             \/ is_normal(FMul(Coords(t, h)[i], Coords(t, h)[i]))
    /\ ~AllZero(t, h)
    /\ is_finite(magnitude_sq(t, h))

\* C8 as stated: for every v with nonzero magnitude,
\* abs(magnitude(normalize(v)) - 1) < EPSILON, and for every Some(u) of
\* safe_normalize(v), abs(magnitude(u) - 1) < EPSILON.
C8_UnitWithinEpsilon ==
    /\ (op \in {"normalized.magnitude", "safe_normalize", "v.magnitude"}
          /\ ~is_zero(r.mag))
          => Within(r.nmag, EPSILON)
    /\ op = "v.magnitude" => Within(r.umag, EPSILON)

\* C8, amended: for every finite nonzero v whose magnitude_sq is computed
\* without underflow or overflow, abs(magnitude(normalize(v)) - 1) is less
\* than 4 * EPSILON, safe_normalize(v) is Some(u) and
\* abs(magnitude(u) - 1) is less than 4 * EPSILON.
C8_UnitWithinFourEpsilon ==
    SquaresInRange(ty, v) =>
        /\ op \in {"normalized.magnitude", "safe_normalize", "v.magnitude"}
              => Within(r.nmag, FourEpsilon)
        /\ SafeRan => r.u # None
        /\ op = "v.magnitude" => Within(r.umag, FourEpsilon)

\* C8: a Vec3 in range whose normalized form has a magnitude one EPSILON
\* away from 1, and whose safe_normalize form is Some
C8_Witness ==
    /\ op = "v.magnitude"
    /\ ty = "Vec3"
    /\ SquaresInRange(ty, v)
    /\ z(ty, v) = ONE
    /\ ~Within(r.nmag, EPSILON)
    /\ Within(r.nmag, FourEpsilon)
    /\ Within(r.umag, FourEpsilon)

\* every coordinate is an infinity or a NaN
AllInfOrNaN(t, h) ==
    \A i \in DOMAIN Coords(t, h) :
        IsInf(Coords(t, h)[i]) \/ IsNaN(Coords(t, h)[i])

\* C9: normalize() of a vector whose magnitude is zero completes, in every
\* backend and build, and returns a vector each of whose coordinates is an
\* infinity or a NaN.
C9_ZeroMagnitudeGivesInfOrNaN ==
    (NormalizeRan /\ is_zero(r.mag))
        => /\ DOMAIN r.n = DOMAIN v
           /\ AllInfOrNaN(ty, r.n)

\* C9: a Vec3A without SIMD whose magnitude underflows to zero, normalized
\* to an infinity and two NaNs
C9_Witness ==
    /\ op = "normalize"
    /\ ty = "Vec3A"
    /\ ~simd
    /\ is_zero(r.mag)
    /\ x(ty, v) = Fin(1, 1)
    /\ x(ty, r.n) = Inf(1)
    /\ IsNaN(y(ty, r.n))
    /\ IsNaN(z(ty, r.n))

\* 1 / l is computed exactly: l is a power of two with a finite reciprocal
ExactRecip(l) ==
    /\ is_finite(l)
    /\ ~is_zero(l)
    /\ is_finite(FDiv(ONE, l))
    /\ l.m * FDiv(ONE, l).m = 2^(2 * Scale)

\* C10 as stated: normalize(v) == v / magnitude(v), and for every Some(u) of
\* safe_normalize(v), u == normalize(v) == v / magnitude(v), coordinate by
\* coordinate.
C10_SafeEqualsNormalize ==
    /\ NormalizeRan => eq(ty, r.n, div(ty, v, r.mag))
    /\ (SafeRan /\ r.u # None)
          => /\ eq(ty, r.u.val, r.n)
             /\ eq(ty, r.n, div(ty, v, r.mag))

\* C10, amended: for every Some(u) of safe_normalize(v), u is
\* v / magnitude(v) bit for bit; normalize(v) is v * (1 / magnitude(v)), and
\* v / magnitude(v) in the SIMD build of Vec3A; u == normalize(v) coordinate
\* by coordinate whenever 1 / magnitude(v) is exact, and in the SIMD build
\* of Vec3A whenever no coordinate of u is NaN.
C10_SafeIsQuotient ==
    /\ NormalizeRan =>
          r.n = IF ty = "Vec3A" /\ simd THEN div(ty, v, r.mag)
                ELSE mul(ty, v, FDiv(ONE, r.mag))
    /\ (SafeRan /\ r.u # None) =>
          /\ r.u.val = div(ty, v, r.mag)
          /\ ExactRecip(r.mag) => eq(ty, r.u.val, r.n)
          /\ (ty = "Vec3A" /\ simd /\ NoNaN(ty, r.u.val))
                => eq(ty, r.u.val, r.n)

\* C10: a cgmath 2D vector of magnitude 2 whose safe_normalize and
\* normalize forms are both (0, -1)
C10_Witness ==
    /\ op = "v.magnitude"
    /\ ty = "CgVector2"
    /\ r.mag = TWO
    /\ ExactRecip(r.mag)
    /\ r.u # None
    /\ y(ty, r.u.val) = FNeg(ONE)
    /\ eq(ty, r.u.val, r.n)

(***************************************************************************)
(* Properties of the products and distances                                *)
(***************************************************************************)

\* abs(l * l - sq), with the scalars' own operations
SquareGap(l, sq) == FAbs(FSub(FMul(l, l), sq))

\* d <= 2 * EPSILON * sq, for finite d and sq, compared exactly
WithinTwoEpsilonOf(d, sq) ==
    is_finite(d) /\ is_finite(sq) /\ d.m * 2^MantBits <= 2 * sq.m

\* 0.5
Half == Fin(0, 2^(Scale - 1))

\* every coordinate is finite
AllFinite(t, h) == \A i \in DOMAIN Coords(t, h) : is_finite(Coords(t, h)[i])

\* C11 as stated: for every v,
\* abs(magnitude(v) * magnitude(v) - magnitude_sq(v)) < EPSILON.
C11_SquareWithinEpsilon ==
    op = "magnitude_sq" => FLt(SquareGap(r.magnitude, r.magnitude_sq), EPSILON)

\* C11, amended: magnitude_sq(v) is the sum of the squared coordinates, and
\* for every v whose magnitude_sq is finite,
\* abs(magnitude(v) * magnitude(v) - magnitude_sq(v)) is at most
\* 2 * EPSILON * magnitude_sq(v); it is less than EPSILON when
\* magnitude_sq(v) is less than 0.5.
C11_SquareWithinRelativeEpsilon ==
    op = "magnitude_sq" =>
        /\ r.magnitude_sq = dot(ty, v, v)
        /\ is_finite(r.magnitude_sq)
              => WithinTwoEpsilonOf(SquareGap(r.magnitude, r.magnitude_sq),
                                    r.magnitude_sq)
        /\ (is_finite(r.magnitude_sq) /\ FLt(r.magnitude_sq, Half))
              => FLt(SquareGap(r.magnitude, r.magnitude_sq), EPSILON)

\* C11: a Vec2A whose magnitude squared misses magnitude_sq by more than
\* EPSILON and by no more than 2 * EPSILON * magnitude_sq
C11_Witness ==
    /\ op = "magnitude_sq"
    /\ ty = "Vec2A"
    /\ AllFinite(ty, v)
    /\ is_finite(r.magnitude_sq)
    /\ ~FLt(SquareGap(r.magnitude, r.magnitude_sq), EPSILON)
    /\ ~is_zero(SquareGap(r.magnitude, r.magnitude_sq))
    /\ WithinTwoEpsilonOf(SquareGap(r.magnitude, r.magnitude_sq),
                          r.magnitude_sq)

\* C12 as stated: for every a and b,
\* abs(distance(a, b) * distance(a, b) - distance_sq(a, b)) < EPSILON and
\* distance_sq(a, b) == magnitude_sq(a - b).
C12_DistanceWithinEpsilon ==
    op = "distance" =>
        /\ FLt(SquareGap(r.distance, r.distance_sq), EPSILON)
        /\ FEq(r.distance_sq, magnitude_sq(ty, sub(ty, v, alt)))

\* C12, amended: distance_sq(a, b) is magnitude_sq(a - b) bit for bit (and
\* == to it unless it is NaN), distance(a, b) is its square root, and
\* whenever distance_sq(a, b) is finite,
\* abs(distance(a, b) * distance(a, b) - distance_sq(a, b)) is at most
\* 2 * EPSILON * distance_sq(a, b), and less than EPSILON when
\* distance_sq(a, b) is less than 0.5.
C12_DistanceWithinRelativeEpsilon ==
    op = "distance" =>
        /\ r.distance_sq = magnitude_sq(ty, sub(ty, v, alt))
        /\ ~IsNaN(r.distance_sq)
              => FEq(r.distance_sq, magnitude_sq(ty, sub(ty, v, alt)))
        /\ r.distance = FSqrt(r.distance_sq)
        /\ is_finite(r.distance_sq)
              => WithinTwoEpsilonOf(SquareGap(r.distance, r.distance_sq),
                                    r.distance_sq)
        /\ (is_finite(r.distance_sq) /\ FLt(r.distance_sq, Half))
              => FLt(SquareGap(r.distance, r.distance_sq), EPSILON)

\* C12: a cgmath 3D vector and a second vector that is no multiple of it,
\* whose squared distance is finite and is missed by the distance squared
C12_Witness ==
    /\ op = "distance"
    /\ ty = "CgVector3"
    /\ k = None
    /\ alt = new_3d(ty, ONE, FNeg(TWO), THREE)
    /\ is_finite(r.distance_sq)
    /\ ~is_zero(SquareGap(r.distance, r.distance_sq))
    /\ WithinTwoEpsilonOf(SquareGap(r.distance, r.distance_sq),
                          r.distance_sq)

\* a.x*b.x + a.y*b.y [+ a.z*b.z], every product and every sum rounded, the
\* sums taken from the left
InnerProduct(t, a, b) ==
    LET ca == Coords(t, a)
        cb == Coords(t, b)
        xy == FAdd(FMul(ca[1], cb[1]), FMul(ca[2], cb[2]))
    IN  IF Len(ca) = 3 THEN FAdd(xy, FMul(ca[3], cb[3])) ELSE xy

\* x*x*mult + y*y*mult [+ z*z*mult], as the tests write it
ScaledSquares(t, h, mult) ==
    LET c == Coords(t, h)
        xy == FAdd(FMul(FMul(c[1], c[1]), mult), FMul(FMul(c[2], c[2]), mult))
    IN  IF Len(c) = 3 THEN FAdd(xy, FMul(FMul(c[3], c[3]), mult)) ELSE xy

\* C13 as stated, on finite vectors and finite factors: dot(a, b) is
\* a.x*b.x + a.y*b.y [+ a.z*b.z], and for v1 = v0 * k,
\* dot(v0, v1) == x*x*k + y*y*k [+ z*z*k].
C13_DotOfScaled ==
    (op = "dot" /\ AllFinite(ty, v) /\ AllFinite(ty, alt)) =>
        /\ r = InnerProduct(ty, v, alt)
        /\ (k # None /\ is_finite(k)) => FEq(r, ScaledSquares(ty, v, k))

\* C13, amended: dot(a, b) is a.x*b.x + a.y*b.y [+ a.z*b.z] with every
\* product and sum rounded, bit for bit, for all a and b; and for
\* v1 = v0 * k with finite v0 and k, dot(v0, v1) == x*x*k + y*y*k [+ z*z*k]
\* whenever c*k and c*c are exact for every coordinate c of v0.
C13_DotOfExactlyScaled ==
    op = "dot" =>
        /\ r = InnerProduct(ty, v, alt)
        /\ (/\ k # None
            /\ \A i \in DOMAIN Coords(ty, v) :
                  /\ ExactProduct(Coords(ty, v)[i], k)
                  /\ ExactProduct(Coords(ty, v)[i], Coords(ty, v)[i]))
              => FEq(r, ScaledSquares(ty, v, k))

\* C13: the dot product of the Vec3 (2, 1, 1) and its sixfold, 36
C13_Witness ==
    /\ op = "dot"
    /\ ty = "Vec3"
    /\ k = Six
    /\ v = new_3d(ty, TWO, ONE, ONE)
    /\ alt = new_3d(ty, Fin(0, 12 * 2^Scale), Six, Six)
    /\ r = ScaledSquares(ty, v, k)
    /\ r = Inf(0) \/ r = Fin(0, 36 * 2^Scale)

\* a.x*b.y - a.y*b.x, the products and the difference rounded
SignedArea(t, a, b) ==
    FSub(FMul(x(t, a), y(t, b)), FMul(y(t, a), x(t, b)))

\* C14 as stated, on finite vectors and finite factors: perp_dot(a, b) is
\* a.x*b.y - a.y*b.x, and it == 0 when b is a multiple of a and when a or b
\* is the zero vector.
C14_PerpDotZeroIfCollinear ==
    (op = "perp_dot" /\ AllFinite(ty, v)) =>
        /\ r = SignedArea(ty, v, alt)
        /\ (k # None /\ is_finite(k)) => FEq(r, ZERO)
        /\ (AllFinite(ty, alt) /\ (AllZero(ty, v) \/ AllZero(ty, alt)))
              => FEq(r, ZERO)

\* C14, amended: perp_dot(a, b) is a.x*b.y - a.y*b.x with the products and
\* the difference rounded, bit for bit, for all 2D a and b; it == 0 when
\* b = a * k with a.x*k and a.y*k exact and a.x*(a.y*k) finite, and when one
\* of a and b is the zero vector and the other is finite.
C14_PerpDotZeroIfExactlyCollinear ==
    op = "perp_dot" =>
        /\ r = SignedArea(ty, v, alt)
        /\ (/\ k # None
            /\ ExactProduct(x(ty, v), k)
            /\ ExactProduct(y(ty, v), k)
            /\ is_finite(FMul(x(ty, v), y(ty, alt))))
              => FEq(r, ZERO)
        /\ (\/ AllZero(ty, v) /\ AllFinite(ty, alt)
            \/ AllFinite(ty, v) /\ AllZero(ty, alt))
              => FEq(r, ZERO)

\* C14: the Vec2A (-1.5, 1) and its sixfold (-9, 6), whose products are
\* exact and whose perp_dot is zero
C14_Witness ==
    /\ op = "perp_dot"
    /\ ty = "Vec2A"
    /\ k = Six
    /\ v = new_2d(ty, Fin(1, 3 * 2^(Scale - 1)), ONE)
    /\ alt = new_2d(ty, Fin(1, 9 * 2^Scale), Six)
    /\ is_zero(r)

\* a finite value as a signed count of the smallest subnormal
Signed(a) == IF a.s = 1 THEN -a.m ELSE a.m

\* two finite vectors are collinear: a[i]*b[j] = a[j]*b[i] for all axes,
\* in exact arithmetic (either may be the zero vector)
Collinear(t, a, b) ==
    \A i, j \in DOMAIN Coords(t, a) :
        Signed(Coords(t, a)[i]) * Signed(Coords(t, b)[j])
            = Signed(Coords(t, a)[j]) * Signed(Coords(t, b)[i])

\* every product a[i]*b[j] of two different axes is finite
ProductsFinite(t, a, b) ==
    \A i, j \in DOMAIN Coords(t, a) :
        i # j => is_finite(FMul(Coords(t, a)[i], Coords(t, b)[j]))

\* every product a[i]*b[j] of two different axes is exact
ProductsExact(t, a, b) ==
    \A i, j \in DOMAIN Coords(t, a) :
        i # j => ExactProduct(Coords(t, a)[i], Coords(t, b)[j])

ZeroVector3 == Vector3_new(ZERO, ZERO, ZERO)

\* C15 as stated, on finite vectors and finite factors: cross(a, b) is the
\* zero vector if and only if a and b are collinear; cross(v, v) and
\* cross(v, v * k) == (0, 0, 0).
C15_CrossZeroIffCollinear ==
    (op = "cross" /\ AllFinite(ty, v)) =>
        /\ (k # None /\ is_finite(k)) => eq(ty, r, ZeroVector3)
        /\ (k = None /\ AllFinite(ty, alt))
              => (eq(ty, r, ZeroVector3) <=> Collinear(ty, v, alt))

\* C15, amended: for finite 3D a and b whose products a[i]*b[j] are exact,
\* cross(a, b) is the zero vector if and only if a and b are collinear;
\* cross(v, v) == (0, 0, 0) for every v whose products v[i]*v[j] are finite,
\* and cross(v, v * k) == (0, 0, 0) whenever v * k is exact and the products
\* v[i]*(v[j]*k) are finite.
C15_CrossZeroIffExactlyCollinear ==
    op = "cross" =>
        /\ (k = None /\ ProductsExact(ty, v, alt))
              => (eq(ty, r, ZeroVector3) <=> Collinear(ty, v, alt))
        /\ (k # None /\ alt = v /\ ProductsFinite(ty, v, v))
              => eq(ty, r, ZeroVector3)
        /\ (/\ k # None
            /\ \A i \in DOMAIN Coords(ty, v) : ExactProduct(Coords(ty, v)[i], k)
            /\ ProductsFinite(ty, v, alt))
              => eq(ty, r, ZeroVector3)

\* C15: the Vec3A (0.5, -3, 1) and a second vector that is no multiple of
\* it, with exact products and a cross product that is not zero
C15_Witness ==
    /\ op = "cross"
    /\ ty = "Vec3A"
    /\ k = None
    /\ v = new_3d(ty, Half, FNeg(THREE), ONE)
    /\ alt = new_3d(ty, ONE, FNeg(TWO), THREE)
    /\ ProductsExact(ty, v, alt)
    /\ ~Collinear(ty, v, alt)
    /\ ~eq(ty, r, ZeroVector3)

(***************************************************************************)
(* Properties of approximate equality                                      *)
(***************************************************************************)

\* the axes of a vector of type t
Axes(t) == IF t \in Types3 THEN 1..3 ELSE 1..2

\* C17: is_ulps_eq(a, b, epsilon, max_ulps) is true exactly when the
\* scalars' ulps_eq holds on every axis with the same epsilon and max_ulps,
\* and is_abs_diff_eq(a, b, epsilon) exactly when abs(a[i] - b[i]) <= epsilon
\* on every axis; one axis that disagrees makes the result false.
C17_EveryAxis ==
    /\ op = "is_ulps_eq" =>
          (r <=> \A i \in Axes(ty) :
                    ulps_eq(Coords(ty, v)[i], Coords(ty, alt)[i], zc, nw))
    /\ op = "is_abs_diff_eq" =>
          (r <=> \A i \in Axes(ty) :
                    FLe(FAbs(FSub(Coords(ty, v)[i], Coords(ty, alt)[i])), zc))

\* C17: a Vec3A and its sixfold that agree on x and y (both zero) and
\* disagree on z alone, and are not ULPS-equal
C17_Witness ==
    /\ op = "is_ulps_eq"
    /\ ty = "Vec3A"
    /\ k = Six
    /\ zc = default_epsilon
    /\ nw = default_max_ulps
    /\ ulps_eq(x(ty, v), x(ty, alt), zc, nw)
    /\ ulps_eq(y(ty, v), y(ty, alt), zc, nw)
    /\ ~ulps_eq(z(ty, v), z(ty, alt), zc, nw)
    /\ r = FALSE

\* the tolerances are the defaults
Defaults == zc = default_epsilon /\ nw = default_max_ulps

\* C18 as stated: for every v, is_ulps_eq(v, v, default_epsilon,
\* default_max_ulps) and is_abs_diff_eq(v, v, default_epsilon) are true.
C18_EqualToItself ==
    (op \in {"is_ulps_eq", "is_abs_diff_eq"} /\ Defaults /\ alt = v)
        => r = TRUE

\* C18, amended: under the default tolerances is_abs_diff_eq(v, v) is true
\* exactly when every coordinate of v is finite, and is_ulps_eq(v, v) is
\* true exactly when no coordinate of v is NaN.
C18_EqualToItselfUnlessNonFinite ==
    (Defaults /\ alt = v) =>
        /\ op = "is_abs_diff_eq" => (r <=> AllFinite(ty, v))
        /\ op = "is_ulps_eq" => (r <=> NoNaN(ty, v))

\* C18: a cgmath 3D vector with an infinite coordinate, ULPS-equal to itself
C18_Witness ==
    /\ op = "is_ulps_eq"
    /\ ty = "CgVector3"
    /\ Defaults
    /\ alt = v
    /\ z(ty, v) = Inf(1)
    /\ x(ty, v) = FNeg(EPSILON)
    /\ r = TRUE

\* C19 as stated, on finite vectors: under the default tolerances a vector v
\* and v * k, k not 1, are neither ULPS-equal nor abs-diff-equal.
C19_ScaledDiffers ==
    (/\ op \in {"is_ulps_eq", "is_abs_diff_eq"}
     /\ Defaults
     /\ k # None
     /\ AllFinite(ty, v))
        => r = FALSE

\* C19, amended: under the default tolerances a vector v with a coordinate
\* c of absolute value above EPSILON whose product c * k is finite, and
\* v * k, for k >= 2 or k <= 0, are neither ULPS-equal nor abs-diff-equal.
C19_ScaledDiffersIfLarge ==
    (/\ op \in {"is_ulps_eq", "is_abs_diff_eq"}
     /\ Defaults
     /\ k # None
     /\ FLe(TWO, k) \/ FLe(k, ZERO)
     /\ \E i \in Axes(ty) :
           /\ is_finite(Coords(ty, alt)[i])
           /\ FLt(EPSILON, FAbs(Coords(ty, v)[i])))
        => r = FALSE

\* C19: the Vec2 (1, -3) and its sixfold (6, -18 or -infinity), not
\* abs-diff-equal
C19_Witness ==
    /\ op = "is_abs_diff_eq"
    /\ ty = "Vec2"
    /\ Defaults
    /\ k = Six
    /\ v = new_2d(ty, ONE, FNeg(THREE))
    /\ x(ty, alt) = Six
    /\ r = FALSE

(***************************************************************************)
(* Properties of the operators and indexing                                *)
(***************************************************************************)

\* C16: v[0] is x and v[1] is y; on a 3D vector v[2] is z; any other index
\* gives no value but panics, for the Vec2A wrapper as for the other types.
C16_IndexOrPanic ==
    op = "index" =>
        /\ nw = 0 => r = x(ty, v)
        /\ nw = 1 => r = y(ty, v)
        /\ (nw = 2 /\ ty \in Types3) => r = z(ty, v)
        /\ (nw > 2 \/ (nw = 2 /\ ty \in Types2)) => r = Panic

\* C16: a Vec2A indexed with 2, which panics
C16_Witness ==
    /\ op = "index"
    /\ ty = "Vec2A"
    /\ nw = 2
    /\ r = Panic

\* the coordinate of h that index i names, i being 0 or 1
Axis(t, h, i) == IF i = 0 THEN x(t, h) ELSE y(t, h)

\* C20 as stated, on finite vectors: for all v0, v1, after
\* v0 += -v1 - v1 + v1 + v1 the components v0[0] and v0[1] are == to the
\* x and y v0 had before.
C20_ComposeIsIdentity ==
    (/\ op = "index"
     /\ zc = 1
     /\ nw \in {0, 1}
     /\ AllFinite(ty, last)
     /\ AllFinite(ty, alt))
        => (r # Panic /\ FEq(r, Axis(ty, last, nw)))

\* C20, amended: for v0 whose coordinate c on axis i (0 or 1) is not NaN
\* and v1 whose coordinate d on that axis has d + d finite, after
\* v0 += -v1 - v1 + v1 + v1 the component v0[i] is == to c.
C20_ComposeIsIdentityUnlessOverflow ==
    (/\ op = "index"
     /\ zc = 1
     /\ nw \in {0, 1}
     /\ Axis(ty, last, nw) # NaN
     /\ is_finite(FAdd(Axis(ty, alt, nw), Axis(ty, alt, nw))))
        => (r # Panic /\ FEq(r, Axis(ty, last, nw)))

\* C20: the Vec2A (2, 1) after += with its sixfold (12, 6), indexed with 1
C20_Witness ==
    /\ op = "index"
    /\ zc = 1
    /\ nw = 1
    /\ ty = "Vec2A"
    /\ k = Six
    /\ last = new_2d(ty, TWO, ONE)
    /\ alt = new_2d(ty, FMul(TWO, Six), Six)
    /\ AllFinite(ty, alt)
    /\ r = ONE

(***************************************************************************)
(* Properties of the scalar operations                                     *)
(***************************************************************************)

\* C21: for min <= max, clamp(self, min, max) returns min when self < min,
\* max when self > max and self otherwise; when self == min or self == max
\* the result is == to that bound.
C21_StandardClamp ==
    (op = "clamp" /\ FLe(alt, last)) =>
        /\ FLt(v, alt) => r = alt
        /\ FLt(last, v) => r = last
        /\ (~FLt(v, alt) /\ ~FLt(last, v)) => r = v
        /\ FEq(v, alt) => (r # Panic /\ FEq(r, alt))
        /\ FEq(v, last) => (r # Panic /\ FEq(r, last))

\* C21: clamp(5, 6, 8), which is 6
C21_Witness ==
    /\ op = "clamp"
    /\ v = Five
    /\ alt = Six
    /\ last = Eight
    /\ r = Six

\* C22 as stated: clamp(self, min, max) returns a value for any arguments.
C22_ClampIsTotal == op = "clamp" => r \in Scalars

\* C22, amended: clamp(self, min, max) panics exactly when min <= max is
\* false (min > max, or a bound is NaN) and otherwise returns a scalar, NaN
\* for a NaN self; to_bits, from_bits, is_finite, is_normal and * always
\* return a value, and * gives NaN when an operand is NaN.
C22_TotalButClamp ==
    /\ op = "clamp" =>
          /\ r = Panic <=> ~FLe(alt, last)
          /\ FLe(alt, last) => (r \in Scalars /\ (IsNaN(v) => IsNaN(r)))
    /\ op = "to_bits" => r \in 0..(2^(1 + ExpBits + MantBits) - 1)
    /\ op = "from_bits" => r \in Scalars
    /\ op \in {"is_finite", "is_normal"} => r \in BOOLEAN
    /\ op = "mul" =>
          (r \in Scalars /\ ((IsNaN(v) \/ IsNaN(alt)) => IsNaN(r)))

\* C22: clamp(1, 8, 6), which panics
C22_Witness ==
    /\ op = "clamp"
    /\ v = ONE
    /\ alt = Eight
    /\ last = Six
    /\ r = Panic

(***************************************************************************)
(* Properties of the Vec2A wrapper                                         *)
(***************************************************************************)

\* C23 as stated: a Vec2A built from the tuple (x, y), the array [x, y],
\* the Vec2 (x, y) or by Vec2A::new(x, y) has x() == x and y() == y, and
\* converted back it is == to the Vec2 (x, y).
C23_SameCoordinates ==
    /\ op \in Ways =>
          /\ FEq(x(ty, v), last.x)
          /\ FEq(y(ty, v), last.y)
    /\ op = "into_Vec2" =>
          /\ FEq(r.x, last.x)
          /\ FEq(r.y, last.y)

\* C23, amended: a Vec2A built in any of the four ways holds x and y bit
\* for bit, so the four are the same value, with x() == x and y() == y for
\* x and y that are not NaN; converted back it is the wrapped Vec2 bit for
\* bit, and for a Vec2A made from a Vec2 that is the Vec2 it was made from.
C23_SameCoordinatesBitForBit ==
    /\ op \in Ways =>
          /\ x(ty, v) = last.x
          /\ y(ty, v) = last.y
          /\ v = Vec2A_new(last.x, last.y)
          /\ ~IsNaN(last.x) => FEq(x(ty, v), last.x)
          /\ ~IsNaN(last.y) => FEq(y(ty, v), last.y)
    /\ op = "into_Vec2" =>
          /\ r = v[1]
          /\ r = Vector2_new(last.x, last.y)
          /\ from_Vec2(r) = v

\* C23: the Vec2A made from the array [1, -3], converted into the Vec2
\* (1, -3)
C23_Witness ==
    /\ op = "into_Vec2"
    /\ zc = "from_array"
    /\ last = Vector2_new(ONE, FNeg(THREE))
    /\ r = Vector2_new(ONE, FNeg(THREE))

(***************************************************************************)
(* Properties across the backends                                          *)
(***************************************************************************)

\* what implementor t returned, as generic code sees it: the coordinates
\* of a vector through the accessors, the presence of an Option, a scalar
\* or a boolean as it is
Shown(t) ==
    CASE op \in {"new_2d", "new_3d"} -> Coords(t, r[t])
      [] op = "to_3d" -> Coords(Vector3Of(t), r[t])
      [] op = "to_2d" -> Coords(Vector2Of(t), r[t])
      [] op = "cross" -> Coords(t, r[t])
      [] op = "safe_normalize" -> r[t].k = "some"
      [] OTHER -> r[t]

C25_ValueSemantics ==
    [][/\ v'[1] = last
       /\ (nw' = nw /\ op' # "let") => v' = v]_vars

\* C25: a Vec2A v1 written MaxWrites times and no longer equal to v0, after
\* v0.dot(v1)
C25_Witness ==
    /\ op = "dot"
    /\ ty = "Vec2A"
    /\ alt = 2
    /\ nw = MaxWrites
    /\ v[2] # v[1]
    /\ v[1] = last
    /\ y(ty, v[2]) = ZERO

=============================================================================
